---- MODULE Spec2Model ----
(***************************************************************************)
(* Model of flight/Modules/Sensors/simulated/sensors.c: the simulated      *)
(* sensors module.  SensorsInitialize registers UAVObjects, SensorsStart   *)
(* creates the FreeRTOS task, and SensorsTask seeds HomeLocation and then  *)
(* publishes a constant sensor snapshot every loop iteration.              *)
(*                                                                         *)
(* UAVObject get/set calls are atomic per call; the task may be preempted  *)
(* between any two calls, so every call is one position of the task.       *)
(* Sensor fields are C floats; the model draws them from small sets of     *)
(* integers, on which float addition is exact.                             *)
(***************************************************************************)
EXTENDS Integers, FiniteSets, Sequences, TLC

VARIABLES
    hostpc,            \* position of the host's module initcall sequence
    initCalled,        \* objects whose XInitialize() SensorsInitialize called
    registered,        \* objects registered with the UAVObject manager
    regFailed,         \* objects whose XInitialize() reported an error
    initResult,        \* return value of SensorsInitialize (once it returned)
    startResult,       \* return value of SensorsStart (once it returned)
    sensorsTaskHandle, \* static xTaskHandle sensorsTaskHandle
    monitored,         \* handle given to TaskMonitorAdd ("none" before)
    wdgRegistered,     \* PIOS_WDG_RegisterFlag(PIOS_WDG_SENSORS) was called
    pc,                \* position of SensorsTask ("none": task does not exist)
    local,             \* the task's stack copies of the objects it Gets
    lastSysTime,       \* the task's lastSysTime
    wakeAt,            \* tick at which the pending vTaskDelay expires, else 0
    obj,               \* the UAVObject store: object name -> data
    alarm,             \* SYSTEMALARMS_ALARM_SENSORS
    wdgFlag,           \* PIOS_WDG_SENSORS flag is set in the watchdog
    now,               \* xTaskGetTickCount()
    written,           \* last data the task passed to XSet, per object
    nwrites,           \* number of XSet calls of the task, per object
    accessed,          \* objects the task has called XGet / XSet on
    cycleStart,        \* BaroAltitude / GPSPosition as the current cycle began
    ncalls,            \* number of calls of the task: XGet per object,
                       \* AlarmsClear, PIOS_WDG_UpdateFlag and vTaskDelay
    unseen,            \* per object, the value another task wrote to it
                       \* since this task's last XGet of it ({} if none)
    late,              \* time has elapsed while the task was ready to run
    refreshedAt        \* tick of the task's last PIOS_WDG_UpdateFlag call,
                       \* where recorded

hostVars == <<hostpc, initCalled, registered, regFailed, initResult,
              startResult, sensorsTaskHandle, monitored, wdgRegistered>>
taskVars == <<pc, local, lastSysTime, wakeAt>>
storeVars == <<obj, alarm, wdgFlag>>
logVars == <<written, nwrites, accessed, cycleStart, ncalls, unseen>>
vars == <<hostVars, taskVars, storeVars, logVars, now, late, refreshedAt>>

----------------------------------------------------------------------------
(* Bounds of the model *)

\* Saturation value of the per-object write counters.
MaxLog == 7
\* Last tick of the timed specification (five periods of the loop).
MaxTime == 100
\* Ticks that may elapse before the task reaches its loop.
MaxStartTicks == 1

\* Ticks followed where the tick of each watchdog refresh is recorded.
MaxWatchTime == 45

----------------------------------------------------------------------------
(* Program constants *)

\* Variant of DelayTicks that waits half as long.
DelayTicks_Half == 20 \div 2

\* vTaskDelay(20 / portTICK_RATE_MS), with one tick per millisecond.
DelayTicks == 20

\* The period of the loop the delay is meant to give, in ticks.
PeriodTicks == 20

\* Objects registered by SensorsInitialize.
InitObjects == {"Accels", "BaroAltitude", "Gyros", "GyrosBias",
                "Magnetometer", "RevoCalibration"}

\* Objects SensorsTask calls XGet or XSet on.
TaskObjects == {"Accels", "Gyros", "GyrosBias", "BaroAltitude",
                "GPSPosition", "HomeLocation", "Magnetometer"}

\* Objects SensorsTask calls XSet on.
TaskWritten == TaskObjects \ {"GyrosBias"}

\* Objects other tasks write concurrently.
OtherWritten == {"GyrosBias", "BaroAltitude", "GPSPosition"}

\* Objects SensorsTask calls XGet on.
TaskRead == {"HomeLocation", "GyrosBias", "BaroAltitude", "GPSPosition"}

\* The calls of SensorsTask that are counted besides its XSet calls.
CountedCalls == TaskRead \cup {"AlarmsClear", "WDGUpdateFlag", "vTaskDelay"}

\* Sensor objects published by the loop.
SensorObjects == {"Accels", "Gyros", "BaroAltitude", "GPSPosition",
                  "Magnetometer"}

\* Positions of SensorsTask inside the while (1) loop.
LoopPcs == {"AccelsSet", "GyrosBiasGet", "GyrosSet", "BaroAltitudeGet",
            "BaroAltitudeSet", "GPSPositionGet", "GPSPositionSet",
            "MagnetometerSet", "WDGUpdateFlag", "vTaskDelay", "Blocked"}

Vec(a, b, c) == [x |-> a, y |-> b, z |-> c]

\* Variant of HomeLocationSeed that leaves the validity flag as it was read.
HomeLocationSeed_NoSet(h) ==
    [h EXCEPT !.Latitude = 0, !.Longitude = 0, !.Altitude = 0,
              !.Be = <<26000, 400, 40000>>]

\* homeLocation.Latitude = 0; ... homeLocation.Set = HOMELOCATION_SET_TRUE;
HomeLocationSeed(h) ==
    [h EXCEPT !.Latitude = 0, !.Longitude = 0, !.Altitude = 0,
              !.Be = <<26000, 400, 40000>>, !.Set = TRUE]

\* Variant of AccelsSample with the sign of z lost.
AccelsSample_PositiveZ == [x |-> 0, y |-> -1, z |-> 8, temperature |-> 0]

\* accelsData.x = 0; .y = -1; .z = -8; .temperature = 0;
AccelsSample == [x |-> 0, y |-> -1, z |-> -8, temperature |-> 0]

\* Variant of GyrosSample that does not correct the y axis.
GyrosSample_NoBiasY(bias) == Vec(2 + bias.x, 0, 1 + bias.z)

\* gyrosData = (2, 0, 1); gyrosData.{x,y,z} += gyrosBias.{x,y,z};
GyrosSample(bias) == Vec(2 + bias.x, 0 + bias.y, 1 + bias.z)

\* Variant of BaroSample that builds the record afresh instead of from the
\* copy that was read.
BaroSample_Fresh(b) == [Altitude |-> 1, Temperature |-> 0]

\* Variant of BaroSample that takes the other fields from the store at the
\* time of the write (an atomic read-modify-write).
BaroSample_Atomic(b) == [obj.BaroAltitude EXCEPT !.Altitude = 1]

\* baroAltitude.Altitude = 1;
BaroSample(b) == [b EXCEPT !.Altitude = 1]

\* gpsPosition.Latitude = 0; .Longitude = 0; .Altitude = 0;
GPSSample(g) == [g EXCEPT !.Latitude = 0, !.Longitude = 0, !.Altitude = 0]

\* mag.x = 400; mag.y = 0; mag.z = 800;
MagSample == Vec(400, 0, 800)

----------------------------------------------------------------------------
(* Input sets *)

Min(a, b) == IF a < b THEN a ELSE b

\* Gyro bias values other tasks write.
BiasVals == {Vec(5, 5, 5), Vec(1, -2, 3)}

\* Values other tasks write to the fields of BaroAltitude and GPSPosition
\* that this task does not assign.
TemperatureVals == {0, 20}
SatellitesVals == {0, 4}

\* Contents of the objects before the task starts.
AccelsInit == {[x |-> 0, y |-> 0, z |-> 0, temperature |-> 0],
               [x |-> 3, y |-> 3, z |-> 3, temperature |-> 25]}
HomeInit == {[Latitude |-> 0, Longitude |-> 0, Altitude |-> 0,
              Be |-> <<0, 0, 0>>, Set |-> FALSE],
             [Latitude |-> 123, Longitude |-> -45, Altitude |-> 6,
              Be |-> <<1, 2, 3>>, Set |-> FALSE],
             [Latitude |-> 7, Longitude |-> 8, Altitude |-> 9,
              Be |-> <<26000, 400, 40000>>, Set |-> TRUE]}
BaroInit == {[Altitude |-> 0, Temperature |-> 0],
             [Altitude |-> 50, Temperature |-> 20]}
GPSInit == {[Latitude |-> 0, Longitude |-> 0, Altitude |-> 0, Satellites |-> 0],
            [Latitude |-> 10, Longitude |-> 20, Altitude |-> 30, Satellites |-> 4]}
AlarmInit == {"UNINITIALISED", "CRITICAL"}

\* Sets of objects whose registration reports an error.
FailChoices == {{}, {"Gyros", "Magnetometer"}}

ZeroObj ==
    [Accels |-> [x |-> 0, y |-> 0, z |-> 0, temperature |-> 0],
     Gyros |-> Vec(0, 0, 0),
     GyrosBias |-> Vec(0, 0, 0),
     BaroAltitude |-> [Altitude |-> 0, Temperature |-> 0],
     GPSPosition |-> [Latitude |-> 0, Longitude |-> 0, Altitude |-> 0,
                      Satellites |-> 0],
     HomeLocation |-> [Latitude |-> 0, Longitude |-> 0, Altitude |-> 0,
                       Be |-> <<0, 0, 0>>, Set |-> FALSE],
     Magnetometer |-> Vec(0, 0, 0)]

----------------------------------------------------------------------------
(* Initial states *)

InitCommon ==
    /\ hostpc = "SensorsInitialize"
    /\ initCalled = {}
    /\ registered = {}
    /\ regFailed = {}
    /\ initResult = 0
    /\ startResult = 0
    /\ sensorsTaskHandle = "NULL"
    /\ monitored = "none"
    /\ wdgRegistered = FALSE
    /\ pc = "none"
    /\ local = ZeroObj
    /\ lastSysTime = 0
    /\ wakeAt = 0
    /\ wdgFlag = FALSE
    /\ now = 0
    /\ written = ZeroObj
    /\ nwrites = [r \in TaskWritten |-> 0]
    /\ accessed = {}
    /\ ncalls = [c \in CountedCalls |-> 0]
    /\ unseen = [r \in OtherWritten |-> {}]
    /\ late = FALSE
    /\ refreshedAt = 0

Init ==
    /\ InitCommon
    /\ \E a \in AccelsInit, h \in HomeInit, b \in BaroInit, g \in GPSInit,
          gb \in BiasVals :
          obj = [ZeroObj EXCEPT !.Accels = a, !.HomeLocation = h,
                                !.BaroAltitude = b, !.GPSPosition = g,
                                !.GyrosBias = gb]
    /\ alarm \in AlarmInit
    /\ cycleStart = [BaroAltitude |-> obj.BaroAltitude,
                     GPSPosition |-> obj.GPSPosition]

\* The objects hold the zeroed default instances of their registration.
InitZeroed ==
    /\ InitCommon
    /\ obj = ZeroObj
    /\ alarm = "UNINITIALISED"
    /\ cycleStart = [BaroAltitude |-> obj.BaroAltitude,
                     GPSPosition |-> obj.GPSPosition]

----------------------------------------------------------------------------
(* The host: MODULE_INITCALL(SensorsInitialize, SensorsStart) *)

\* The XInitialize() calls of SensorsInitialize, in the order of the code.
InitOrder == <<"Accels", "BaroAltitude", "Gyros", "GyrosBias",
               "Magnetometer", "RevoCalibration">>

\* The i-th call of SensorsInitialize, XInitialize() of the object
\* InitOrder[i]: the object is registered unless the call reports an error,
\* and the result is discarded.  The set of registrations that fail is one
\* of FailChoices, the same one for all the calls made so far.
XInitialize(i) ==
    /\ hostpc = "SensorsInitialize"
    /\ initCalled = {InitOrder[j] : j \in 1..(i - 1)}
    /\ \E fails \in FailChoices :
          /\ fails \cap initCalled = regFailed
          /\ regFailed' = regFailed \cup ({InitOrder[i]} \cap fails)
          /\ registered' = registered \cup ({InitOrder[i]} \ fails)
    /\ initCalled' = initCalled \cup {InitOrder[i]}
    /\ UNCHANGED <<hostpc, initResult, startResult, sensorsTaskHandle,
                   monitored, wdgRegistered>>
    /\ UNCHANGED <<taskVars, storeVars, logVars, now, late, refreshedAt>>

AccelsInitialize == XInitialize(1)
BaroAltitudeInitialize == XInitialize(2)
GyrosInitialize == XInitialize(3)
GyrosBiasInitialize == XInitialize(4)
MagnetometerInitialize == XInitialize(5)
RevoCalibrationInitialize == XInitialize(6)

\* return 0; after the six calls.
InitializeReturn ==
    /\ hostpc = "SensorsInitialize"
    /\ initCalled = InitObjects
    /\ initResult' = 0
    /\ hostpc' = "xTaskCreate"
    /\ UNCHANGED <<initCalled, registered, regFailed, startResult,
                   sensorsTaskHandle, monitored, wdgRegistered>>
    /\ UNCHANGED <<taskVars, storeVars, logVars, now, late, refreshedAt>>

\* int32_t SensorsInitialize(void): six XInitialize() calls whose results
\* are discarded, then return 0.
SensorsInitialize ==
    \/ AccelsInitialize \/ BaroAltitudeInitialize \/ GyrosInitialize
    \/ GyrosBiasInitialize \/ MagnetometerInitialize
    \/ RevoCalibrationInitialize
    \/ InitializeReturn

\* SensorsStart, first call: xTaskCreate(SensorsTask, ..., &sensorsTaskHandle);
\* the result of xTaskCreate is discarded.
StartTaskCreate ==
    /\ hostpc = "xTaskCreate"
    /\ \E created \in BOOLEAN :
          /\ sensorsTaskHandle' = IF created THEN "Sensors" ELSE sensorsTaskHandle
          /\ pc' = IF created THEN "AlarmsClear" ELSE pc
    /\ hostpc' = "TaskMonitorAdd"
    /\ UNCHANGED <<initCalled, registered, regFailed, initResult, startResult,
                   monitored, wdgRegistered>>
    /\ UNCHANGED <<local, lastSysTime, wakeAt, storeVars, logVars, now, late,
                   refreshedAt>>

\* SensorsStart, second call: TaskMonitorAdd(TASKINFO_RUNNING_SENSORS, handle);
StartTaskMonitorAdd ==
    /\ hostpc = "TaskMonitorAdd"
    /\ monitored' = sensorsTaskHandle
    /\ hostpc' = "WDGRegisterFlag"
    /\ UNCHANGED <<initCalled, registered, regFailed, initResult, startResult,
                   sensorsTaskHandle, wdgRegistered>>
    /\ UNCHANGED <<taskVars, storeVars, logVars, now, late, refreshedAt>>

\* SensorsStart, end: PIOS_WDG_RegisterFlag(PIOS_WDG_SENSORS); return 0;
StartWDGRegisterFlag ==
    /\ hostpc = "WDGRegisterFlag"
    /\ wdgRegistered' = TRUE
    /\ startResult' = 0
    /\ hostpc' = "done"
    /\ UNCHANGED <<initCalled, registered, regFailed, initResult,
                   sensorsTaskHandle, monitored>>
    /\ UNCHANGED <<taskVars, storeVars, logVars, now, late, refreshedAt>>

SensorsStart == StartTaskCreate \/ StartTaskMonitorAdd \/ StartWDGRegisterFlag

----------------------------------------------------------------------------
(* SensorsTask *)

\* One more call of c by the task.
Count(c) == ncalls' = [ncalls EXCEPT ![c] = Min(@ + 1, MaxLog)]

\* XGet(&data): copy the object into the task's local.
ObjGet(r) ==
    /\ local' = [local EXCEPT ![r] = obj[r]]
    /\ accessed' = accessed \cup {r}
    /\ Count(r)
    /\ unseen' = [o \in OtherWritten |-> IF o = r THEN {} ELSE unseen[o]]
    /\ UNCHANGED <<obj, written, nwrites>>

\* XSet(&data): overwrite the whole object with the task's data.
ObjSet(r, v) ==
    /\ obj' = [obj EXCEPT ![r] = v]
    /\ written' = [written EXCEPT ![r] = v]
    /\ nwrites' = [nwrites EXCEPT ![r] = Min(@ + 1, MaxLog)]
    /\ accessed' = accessed \cup {r}
    /\ UNCHANGED <<local, ncalls, unseen>>

Goto(from, to) == pc = from /\ pc' = to

\* Variant of LoopHead that puts the seeding of HomeLocation inside the loop.
LoopHead_Reseed == "HomeLocationGet"

\* Variant of LoopHead that puts the whole startup inside the loop.
LoopHead_Realarm == "AlarmsClear"

\* First statement of the body of while (1).
LoopHead == "AccelsSet"

\* A cycle of the loop begins.
BeginCycle ==
    cycleStart' = [BaroAltitude |-> obj.BaroAltitude,
                   GPSPosition |-> obj.GPSPosition]

\* AlarmsClear(SYSTEMALARMS_ALARM_SENSORS);
AlarmsClear ==
    /\ Goto("AlarmsClear", "HomeLocationGet")
    /\ alarm' = "OK"
    /\ Count("AlarmsClear")
    /\ UNCHANGED <<hostVars, local, lastSysTime, wakeAt, obj, wdgFlag,
                   written, nwrites, accessed, cycleStart, unseen, now, late,
                   refreshedAt>>

\* HomeLocationGet(&homeLocation);
HomeLocationGet ==
    /\ Goto("HomeLocationGet", "HomeLocationSet")
    /\ ObjGet("HomeLocation")
    /\ UNCHANGED <<hostVars, lastSysTime, wakeAt, alarm, wdgFlag,
                   cycleStart, now, late, refreshedAt>>

\* homeLocation.Latitude = 0; ...; HomeLocationSet(&homeLocation);
HomeLocationSet ==
    /\ Goto("HomeLocationSet", "GetTickCount")
    /\ ObjSet("HomeLocation", HomeLocationSeed(local.HomeLocation))
    /\ UNCHANGED <<hostVars, lastSysTime, wakeAt, alarm, wdgFlag,
                   cycleStart, now, late, refreshedAt>>

\* lastSysTime = xTaskGetTickCount(); while (1) {
GetTickCount ==
    /\ Goto("GetTickCount", LoopHead)
    /\ lastSysTime' = now
    /\ BeginCycle
    /\ UNCHANGED <<hostVars, local, wakeAt, storeVars, written, nwrites,
                   accessed, ncalls, unseen, now, late, refreshedAt>>

\* accelsData = ...; AccelsSet(&accelsData);
AccelsSet ==
    /\ Goto("AccelsSet", "GyrosBiasGet")
    /\ ObjSet("Accels", AccelsSample)
    /\ UNCHANGED <<hostVars, lastSysTime, wakeAt, alarm, wdgFlag,
                   cycleStart, now, late, refreshedAt>>

\* Variant of GyrosBiasGet that copies the bias in the first cycle only and
\* keeps that copy in the later cycles.
GyrosBiasGet_Cached ==
    /\ Goto("GyrosBiasGet", "GyrosSet")
    /\ local' = IF ncalls.GyrosBias = 0
                THEN [local EXCEPT !.GyrosBias = obj.GyrosBias]
                ELSE local
    /\ accessed' = accessed \cup {"GyrosBias"}
    /\ Count("GyrosBias")
    /\ unseen' = [unseen EXCEPT !.GyrosBias = {}]
    /\ UNCHANGED <<hostVars, lastSysTime, wakeAt, storeVars, written, nwrites,
                   cycleStart, now, late, refreshedAt>>

\* GyrosBiasGet(&gyrosBias);
GyrosBiasGet ==
    /\ Goto("GyrosBiasGet", "GyrosSet")
    /\ ObjGet("GyrosBias")
    /\ UNCHANGED <<hostVars, lastSysTime, wakeAt, alarm, wdgFlag,
                   cycleStart, now, late, refreshedAt>>

\* Variant of GyrosSet that also stores the copy of the bias with its x
\* axis cleared.
GyrosSet_ClearsBias ==
    /\ Goto("GyrosSet", "BaroAltitudeGet")
    /\ obj' = [obj EXCEPT !.Gyros = GyrosSample(local.GyrosBias),
                          !.GyrosBias = [local.GyrosBias EXCEPT !.x = 0]]
    /\ written' = [written EXCEPT !.Gyros = GyrosSample(local.GyrosBias)]
    /\ nwrites' = [nwrites EXCEPT !.Gyros = Min(@ + 1, MaxLog)]
    /\ accessed' = accessed \cup {"Gyros"}
    /\ UNCHANGED <<hostVars, local, ncalls, unseen, lastSysTime, wakeAt, alarm,
                   wdgFlag, cycleStart, now, late, refreshedAt>>

\* gyrosData.x += gyrosBias.x; ...; GyrosSet(&gyrosData);
GyrosSet ==
    /\ Goto("GyrosSet", "BaroAltitudeGet")
    /\ ObjSet("Gyros", GyrosSample(local.GyrosBias))
    /\ UNCHANGED <<hostVars, lastSysTime, wakeAt, alarm, wdgFlag,
                   cycleStart, now, late, refreshedAt>>

\* BaroAltitudeGet(&baroAltitude);
BaroAltitudeGet ==
    /\ Goto("BaroAltitudeGet", "BaroAltitudeSet")
    /\ ObjGet("BaroAltitude")
    /\ UNCHANGED <<hostVars, lastSysTime, wakeAt, alarm, wdgFlag,
                   cycleStart, now, late, refreshedAt>>

\* baroAltitude.Altitude = 1; BaroAltitudeSet(&baroAltitude);
BaroAltitudeSet ==
    /\ Goto("BaroAltitudeSet", "GPSPositionGet")
    /\ ObjSet("BaroAltitude", BaroSample(local.BaroAltitude))
    /\ UNCHANGED <<hostVars, lastSysTime, wakeAt, alarm, wdgFlag,
                   cycleStart, now, late, refreshedAt>>

\* GPSPositionGet(&gpsPosition);
GPSPositionGet ==
    /\ Goto("GPSPositionGet", "GPSPositionSet")
    /\ ObjGet("GPSPosition")
    /\ UNCHANGED <<hostVars, lastSysTime, wakeAt, alarm, wdgFlag,
                   cycleStart, now, late, refreshedAt>>

\* Variant of GPSPositionSet after which the watchdog is refreshed at once,
\* before the magnetometer is published.
GPSPositionSet_ThenWatchdog ==
    /\ Goto("GPSPositionSet", "WDGUpdateFlag")
    /\ ObjSet("GPSPosition", GPSSample(local.GPSPosition))
    /\ UNCHANGED <<hostVars, lastSysTime, wakeAt, alarm, wdgFlag,
                   cycleStart, now, late, refreshedAt>>

\* gpsPosition.Latitude = 0; ...; GPSPositionSet(&gpsPosition);
GPSPositionSet ==
    /\ Goto("GPSPositionSet", "MagnetometerSet")
    /\ ObjSet("GPSPosition", GPSSample(local.GPSPosition))
    /\ UNCHANGED <<hostVars, lastSysTime, wakeAt, alarm, wdgFlag,
                   cycleStart, now, late, refreshedAt>>

\* mag = (400, 0, 800); MagnetometerSet(&mag);
MagnetometerSet ==
    /\ Goto("MagnetometerSet", "WDGUpdateFlag")
    /\ ObjSet("Magnetometer", MagSample)
    /\ UNCHANGED <<hostVars, lastSysTime, wakeAt, alarm, wdgFlag,
                   cycleStart, now, late, refreshedAt>>

\* PIOS_WDG_UpdateFlag(PIOS_WDG_SENSORS);
WDGUpdateFlag ==
    /\ Goto("WDGUpdateFlag", "vTaskDelay")
    /\ wdgFlag' = TRUE
    /\ Count("WDGUpdateFlag")
    /\ UNCHANGED <<hostVars, local, lastSysTime, wakeAt, obj, alarm,
                   written, nwrites, accessed, cycleStart, unseen, now, late,
                   refreshedAt>>

\* The same call, with the tick at which it is made recorded for the
\* specification that measures the time between two refreshes.
NotedWDGUpdateFlag ==
    /\ Goto("WDGUpdateFlag", "vTaskDelay")
    /\ wdgFlag' = TRUE
    /\ refreshedAt' = now
    /\ Count("WDGUpdateFlag")
    /\ UNCHANGED <<hostVars, local, lastSysTime, wakeAt, obj, alarm,
                   written, nwrites, accessed, cycleStart, unseen, now, late>>

\* Variant of vTaskDelay after which the task function returns.
vTaskDelay_Exit ==
    /\ Goto("vTaskDelay", "none")
    /\ Count("vTaskDelay")
    /\ UNCHANGED <<hostVars, local, lastSysTime, wakeAt, storeVars, written,
                   nwrites, accessed, cycleStart, unseen, now, late,
                   refreshedAt>>

\* vTaskDelay(20 / portTICK_RATE_MS): block for DelayTicks ticks counted
\* from the call.
vTaskDelay ==
    /\ Goto("vTaskDelay", "Blocked")
    /\ wakeAt' = now + DelayTicks
    /\ Count("vTaskDelay")
    /\ UNCHANGED <<hostVars, local, lastSysTime, storeVars, written, nwrites,
                   accessed, cycleStart, unseen, now, late, refreshedAt>>

\* vTaskDelay returns and the next iteration of while (1) begins.
DelayReturn ==
    /\ Goto("Blocked", LoopHead)
    /\ wakeAt' = 0
    /\ BeginCycle
    /\ UNCHANGED <<hostVars, local, lastSysTime, storeVars, written,
                   nwrites, accessed, ncalls, unseen, now, late, refreshedAt>>

\* The steps of the task up to the last publication of a cycle.
SensorsTaskPublish ==
    \/ AlarmsClear \/ HomeLocationGet \/ HomeLocationSet \/ GetTickCount
    \/ AccelsSet \/ GyrosBiasGet \/ GyrosSet
    \/ BaroAltitudeGet \/ BaroAltitudeSet
    \/ GPSPositionGet \/ GPSPositionSet
    \/ MagnetometerSet

\* The steps of the task between two suspensions.
SensorsTaskRun ==
    \/ SensorsTaskPublish \/ WDGUpdateFlag \/ vTaskDelay

----------------------------------------------------------------------------
(* Other tasks writing the shared objects *)

\* Another task's XSet(&data) on object r; when noted, the value v it wrote is
\* recorded until this task's next XGet of r.
OtherSet(r, data, v, noted) ==
    /\ hostpc = "done"
    /\ obj' = [obj EXCEPT ![r] = data]
    /\ unseen' = IF noted THEN [unseen EXCEPT ![r] = {v}] ELSE unseen
    /\ UNCHANGED <<hostVars, taskVars, alarm, wdgFlag, written, nwrites,
                   accessed, cycleStart, ncalls, now, late, refreshedAt>>

\* An estimator publishes a new gyro bias.
OtherGyrosBiasSet ==
    \E b \in BiasVals \ {obj.GyrosBias} :
        OtherSet("GyrosBias", b, b, FALSE)

\* A barometer driver updates a field of BaroAltitude this task does not assign.
OtherBaroAltitudeSet ==
    \E t \in TemperatureVals \ {obj.BaroAltitude.Temperature} :
        OtherSet("BaroAltitude", [obj.BaroAltitude EXCEPT !.Temperature = t],
                 t, FALSE)

\* A GPS driver updates a field of GPSPosition this task does not assign.
OtherGPSPositionSet ==
    \E n \in SatellitesVals \ {obj.GPSPosition.Satellites} :
        OtherSet("GPSPosition", [obj.GPSPosition EXCEPT !.Satellites = n],
                 n, FALSE)

\* The same writes, recorded for the specifications that follow what
\* becomes of them.
NotedGyrosBiasSet ==
    \E b \in BiasVals \ {obj.GyrosBias} :
        OtherSet("GyrosBias", b, b, TRUE)

NotedBaroAltitudeSet ==
    \E t \in TemperatureVals \ {obj.BaroAltitude.Temperature} :
        OtherSet("BaroAltitude", [obj.BaroAltitude EXCEPT !.Temperature = t],
                 t, TRUE)

NotedGPSPositionSet ==
    \E n \in SatellitesVals \ {obj.GPSPosition.Satellites} :
        OtherSet("GPSPosition", [obj.GPSPosition EXCEPT !.Satellites = n],
                 n, TRUE)

OtherTasks == OtherGyrosBiasSet \/ OtherBaroAltitudeSet \/ OtherGPSPositionSet

\* The watchdog consumes the flag: it must be refreshed again before the
\* watchdog's next check.
WatchdogClear ==
    /\ wdgFlag = TRUE
    /\ wdgFlag' = FALSE
    /\ UNCHANGED <<hostVars, taskVars, obj, alarm, logVars, now, late,
                   refreshedAt>>

----------------------------------------------------------------------------
(* Specification with the tick count abstracted: a pending vTaskDelay may  *)
(* return at any later step.                                               *)

Next ==
    \/ SensorsInitialize
    \/ SensorsStart
    \/ SensorsTaskRun
    \/ DelayReturn
    \/ OtherTasks
    \/ WatchdogClear

Spec == Init /\ [][Next]_vars

\* The same under sustained operation: the scheduler keeps running the task
\* whenever it is ready, and the tick timer ends every delay.
SpecLive ==
    /\ InitZeroed
    /\ [][Next]_vars
    /\ WF_vars(SensorsTaskRun)
    /\ WF_vars(DelayReturn)

----------------------------------------------------------------------------
(* Specifications that follow the writes of other tasks, from zeroed        *)
(* objects: one for the read-modify-write of BaroAltitude and GPSPosition,  *)
(* one, under sustained operation, for the gyro bias.                       *)

NextRace ==
    \/ SensorsInitialize
    \/ SensorsStart
    \/ SensorsTaskRun
    \/ DelayReturn
    \/ NotedBaroAltitudeSet
    \/ NotedGPSPositionSet

SpecRace == InitZeroed /\ [][NextRace]_vars

NextBias ==
    \/ SensorsInitialize
    \/ SensorsStart
    \/ SensorsTaskRun
    \/ DelayReturn
    \/ NotedGyrosBiasSet

SpecBias ==
    /\ InitZeroed
    /\ [][NextBias]_vars
    /\ WF_vars(SensorsTaskRun)
    /\ WF_vars(DelayReturn)

----------------------------------------------------------------------------
(* Specification with the tick count: the objects start zeroed, no other   *)
(* task writes them, and the tick interrupt may fire between any two steps *)
(* (execution time, or preemption by a task of higher priority).           *)

\* The task is in its loop and could run, were it given the processor.
ReadyInLoop ==
    /\ pc \in LoopPcs
    /\ pc = "Blocked" => now >= wakeAt

\* The tick interrupt: xTickCount++.
Tick ==
    /\ now < MaxTime
    /\ pc \notin LoopPcs => now < MaxStartTicks
    /\ now' = now + 1
    /\ late' = (late \/ ReadyInLoop)
    /\ UNCHANGED <<hostVars, taskVars, storeVars, logVars, refreshedAt>>

\* The delay has expired and the scheduler resumes the task.
DelayExpire ==
    /\ now >= wakeAt
    /\ DelayReturn

NextTimed ==
    \/ SensorsInitialize
    \/ SensorsStart
    \/ SensorsTaskRun
    \/ DelayExpire
    \/ Tick

SpecTimed == InitZeroed /\ [][NextTimed]_vars

----------------------------------------------------------------------------
(* Specification with the tick count that records the tick of each refresh *)
(* of the watchdog flag, over the first periods of the loop.               *)

\* The tick interrupt within the time that is followed.
WatchTick ==
    /\ now < MaxWatchTime
    /\ Tick

NextWatch ==
    \/ SensorsInitialize
    \/ SensorsStart
    \/ SensorsTaskPublish
    \/ NotedWDGUpdateFlag
    \/ vTaskDelay
    \/ DelayExpire
    \/ WatchTick

SpecWatch == InitZeroed /\ [][NextWatch]_vars

----------------------------------------------------------------------------
(* Claims *)

\* The task has published at least one whole cycle and is in a later one.
InLaterCycle == pc \in LoopPcs /\ nwrites.Magnetometer >= 2

\* The fixed reference point of the simulated craft.
HomeReference ==
    [Latitude |-> 0, Longitude |-> 0, Altitude |-> 0,
     Be |-> <<26000, 400, 40000>>, Set |-> TRUE]

\* C1: the task calls HomeLocationSet exactly once: never more than once,
\* once by the time it is in the loop, not after any sensor object was
\* written, and with Set = TRUE.
C1_HomeLocationWrittenOnce ==
    /\ nwrites.HomeLocation <= 1
    /\ pc \in LoopPcs => nwrites.HomeLocation = 1
    /\ nwrites.HomeLocation = 0 => \A r \in SensorObjects : nwrites[r] = 0
    /\ nwrites.HomeLocation >= 1 => written.HomeLocation.Set = TRUE

\* Several cycles have run and HomeLocation was written once.
C1_Witness ==
    /\ InLaterCycle
    /\ nwrites.HomeLocation = 1
    /\ \A r \in SensorObjects : nwrites[r] >= 2

\* C2: whatever HomeLocation held before, from the first cycle onward it is
\* the fixed reference point, marked valid, in every state.
C2_HomeLocationFixed ==
    pc \in LoopPcs => obj.HomeLocation = HomeReference

\* HomeLocation held other content with Set = FALSE when the task read it,
\* and holds the reference point several cycles later.
C2_Witness ==
    /\ InLaterCycle
    /\ local.HomeLocation.Latitude = 123
    /\ local.HomeLocation.Set = FALSE
    /\ obj.HomeLocation = HomeReference

\* The task has published Gyros in this cycle or an earlier one and has not
\* read GyrosBias again since its last GyrosSet.
GyrosPublished ==
    /\ nwrites.Gyros >= 1
    /\ pc \in LoopPcs \ {"GyrosSet"}

\* C3: the Gyros value the task publishes is (2 + bias.x, 0 + bias.y,
\* 1 + bias.z) for the bias its GyrosBiasGet of that cycle returned, whatever
\* other tasks write to GyrosBias before or after that read.
C3_GyrosIsBiasCorrected ==
    GyrosPublished =>
        /\ written.Gyros.x = 2 + local.GyrosBias.x
        /\ written.Gyros.y = 0 + local.GyrosBias.y
        /\ written.Gyros.z = 1 + local.GyrosBias.z

\* The bias was (5,5,5) at the read, (7,5,6) was published, and another task
\* has changed GyrosBias since the read.
C3_Witness ==
    /\ GyrosPublished
    /\ local.GyrosBias = Vec(5, 5, 5)
    /\ written.Gyros = Vec(7, 5, 6)
    /\ obj.Gyros = Vec(7, 5, 6)
    /\ obj.GyrosBias # Vec(5, 5, 5)

\* The cycle's BaroAltitudeSet / GPSPositionSet has been executed.
BaroPublished == nwrites.BaroAltitude >= 1 /\ pc \in LoopPcs \ {"BaroAltitudeSet"}
GPSPublished == nwrites.GPSPosition >= 1 /\ pc \in LoopPcs \ {"GPSPositionSet"}

\* C4 as stated: when a cycle is complete, the fields of BaroAltitude and
\* GPSPosition the task does not assign have the value they had when the
\* cycle began, Altitude is 1 and Latitude, Longitude, Altitude are 0.
C4_FieldsKeptAcrossCycle ==
    pc \in {"vTaskDelay", "Blocked"} =>
        /\ written.BaroAltitude = [cycleStart.BaroAltitude EXCEPT !.Altitude = 1]
        /\ written.GPSPosition =
               [cycleStart.GPSPosition EXCEPT !.Latitude = 0, !.Longitude = 0,
                                              !.Altitude = 0]

\* C4 amended: the record the task writes has Altitude 1 (Latitude,
\* Longitude, Altitude 0) and in every other field the value the task's own
\* read of that cycle returned.
C4_FieldsKeptSinceRead ==
    /\ BaroPublished =>
          /\ written.BaroAltitude.Altitude = 1
          /\ written.BaroAltitude.Temperature = local.BaroAltitude.Temperature
    /\ GPSPublished =>
          /\ written.GPSPosition.Latitude = 0
          /\ written.GPSPosition.Longitude = 0
          /\ written.GPSPosition.Altitude = 0
          /\ written.GPSPosition.Satellites = local.GPSPosition.Satellites

\* A cycle is complete in which both records were written with a field
\* value that differs from the one at the beginning of the cycle.
C4_Witness ==
    /\ pc = "Blocked"
    /\ written.BaroAltitude.Temperature = 20
    /\ cycleStart.BaroAltitude.Temperature = 0
    /\ written.GPSPosition.Satellites = 4
    /\ cycleStart.GPSPosition.Satellites = 0
    /\ local.BaroAltitude.Altitude = 1

\* C10: every Accels value the task publishes is (0, -1, -8, 0).
C10_AccelsConstant ==
    nwrites.Accels >= 1 =>
        /\ written.Accels = [x |-> 0, y |-> -1, z |-> -8, temperature |-> 0]
        /\ obj.Accels = written.Accels

\* Accels was published in several cycles.
C10_Witness ==
    /\ nwrites.Accels >= 3
    /\ obj.Accels.z = -8
    /\ pc = "GyrosBiasGet"

\* Periods the clock is advanced by in the end-to-end scenario.
Periods == 1..5

\* The clock stands N periods after the task entered its loop.
AdvancedBy(N) == pc \in LoopPcs /\ now = lastSysTime + N * PeriodTicks

\* C5 as stated: with the clock advanced by N periods and the task waiting
\* in its delay, exactly N Magnetometer snapshots were published, each
\* (400, 0, 800).
C5_ExactlyNSnapshots ==
    \A N \in Periods :
        (AdvancedBy(N) /\ pc = "Blocked") =>
            /\ nwrites.Magnetometer = N
            /\ written.Magnetometer = Vec(400, 0, 800)

\* C5 amended: with the clock advanced by N periods at most N + 1
\* Magnetometer snapshots were published, exactly N + 1 when the task has
\* run every cycle that was due without a tick elapsing inside a cycle, and
\* each snapshot is (400, 0, 800).
C5_AtMostNPlusOneSnapshots ==
    /\ \A N \in Periods :
          AdvancedBy(N) =>
             /\ nwrites.Magnetometer <= N + 1
             /\ (pc = "Blocked" /\ now < wakeAt /\ ~late) =>
                    nwrites.Magnetometer = N + 1
    /\ nwrites.Magnetometer >= 1 =>
          /\ written.Magnetometer = Vec(400, 0, 800)
          /\ obj.Magnetometer = Vec(400, 0, 800)

\* Five periods after loop entry the task has published six snapshots and
\* waits for the seventh cycle.
C5_Witness ==
    /\ AdvancedBy(5)
    /\ pc = "Blocked"
    /\ ~late
    /\ nwrites.Magnetometer = 6
    /\ obj.Magnetometer = Vec(400, 0, 800)

\* Five periods after loop entry a task that was delayed inside its cycles
\* has published fewer than five snapshots.
C5_WitnessDelayed ==
    /\ AdvancedBy(5)
    /\ pc = "Blocked"
    /\ nwrites.Magnetometer = 4

C7_TaskObjectsRegistered ==
    /\ (hostpc # "SensorsInitialize" /\ regFailed = {}) =>
           TaskObjects \subseteq registered
    /\ accessed \subseteq initCalled

\* C8: SensorsInitialize returns -1 exactly when the registration of at
\* least one object failed, and 0 when all succeeded.
C8_InitializeReportsFailure ==
    hostpc # "SensorsInitialize" =>
        /\ regFailed # {} => initResult = -1
        /\ regFailed = {} => initResult = 0

\* C9: SensorsStart returns 0 only when xTaskCreate created the task, and
\* reports failure when it did not.
C9_StartReportsSpawnFailure ==
    hostpc = "done" =>
        /\ pc = "none" => startResult = -1
        /\ startResult = 0 => pc # "none"

\* C11: the read-modify-write is not atomic: BaroAltitudeSet and
\* GPSPositionSet store, in the fields the task does not assign, the copy
\* the task read earlier, whatever the store holds at the time of the write;
\* a value another task wrote in between is overwritten (C11_Witness).
C11_StaleCopyWrittenBack ==
    [][/\ (pc = "BaroAltitudeSet" /\ pc' = "GPSPositionGet") =>
              obj'.BaroAltitude.Temperature = local.BaroAltitude.Temperature
       /\ (pc = "GPSPositionSet" /\ pc' = "MagnetometerSet") =>
              obj'.GPSPosition.Satellites = local.GPSPosition.Satellites]_vars

\* Another task wrote Temperature = 20 after the task's BaroAltitudeGet, and
\* Satellites = 4 after its GPSPositionGet; the task has since written both
\* records back and the store holds its stale 0 in both fields.
C11_Witness ==
    /\ pc = "MagnetometerSet"
    /\ unseen.BaroAltitude = {20}
    /\ obj.BaroAltitude = [Altitude |-> 1, Temperature |-> 0]
    /\ obj.BaroAltitude = written.BaroAltitude
    /\ unseen.GPSPosition = {4}
    /\ obj.GPSPosition.Satellites = 0
    /\ obj.GPSPosition = written.GPSPosition

\* The calls of one cycle in the order claimed, and the position of the
\* task before each of them.
CycleCalls ==
    << <<"set", "Accels">>, <<"get", "GyrosBias">>, <<"set", "Gyros">>,
       <<"get", "BaroAltitude">>, <<"set", "BaroAltitude">>,
       <<"get", "GPSPosition">>, <<"set", "GPSPosition">>,
       <<"set", "Magnetometer">>, <<"call", "WDGUpdateFlag">>,
       <<"call", "vTaskDelay">> >>
CyclePcs ==
    <<"AccelsSet", "GyrosBiasGet", "GyrosSet", "BaroAltitudeGet",
      "BaroAltitudeSet", "GPSPositionGet", "GPSPositionSet",
      "MagnetometerSet", "WDGUpdateFlag", "vTaskDelay">>

\* How often the task has made the i-th call of the cycle.
CallCount(i) ==
    IF CycleCalls[i][1] = "set" THEN nwrites[CycleCalls[i][2]]
                                ELSE ncalls[CycleCalls[i][2]]

\* C12: in a cycle the task makes the ten calls in the claimed order, each
\* once: before its j-th call it has made the calls before the j-th once
\* more often than vTaskDelay and the others as often as vTaskDelay; it is
\* suspended only in vTaskDelay, from which it goes to the first call; so
\* the watchdog is refreshed after the five records of the cycle were set.
C12_CycleOrder ==
    /\ [](\A j \in 1..10 :
            pc = CyclePcs[j] =>
               \A i \in 1..10 :
                  CallCount(i) =
                     Min(ncalls.vTaskDelay + (IF i < j THEN 1 ELSE 0), MaxLog))
    /\ [](pc = "Blocked" => \A i \in 1..10 : CallCount(i) = ncalls.vTaskDelay)
    /\ [][pc' = "Blocked" => pc \in {"vTaskDelay", "Blocked"}]_vars
    /\ [][(pc = "Blocked" /\ pc' # pc) => pc' = "AccelsSet"]_vars

\* In its third cycle the task has refreshed the watchdog and is about to
\* wait: every record was set three times, the watchdog refreshed three
\* times, and vTaskDelay called twice.
C12_Witness ==
    /\ pc = "vTaskDelay"
    /\ ncalls.vTaskDelay = 2
    /\ ncalls.WDGUpdateFlag = 3
    /\ \A r \in SensorObjects : nwrites[r] = 3
    /\ ncalls.GyrosBias = 3

\* C13: the starts of successive cycles are exactly one period apart: the
\* cycle that follows the k-th call of vTaskDelay starts k periods after the
\* task entered its loop, whatever time elapsed inside the cycles.
C13_CyclesOnePeriodApart ==
    [][(pc = "Blocked" /\ pc' = "AccelsSet") =>
           now' = lastSysTime + ncalls.vTaskDelay * PeriodTicks]_vars

\* C14: the task calls AlarmsClear exactly once, before it reads or writes
\* any object, and no step of the loop clears or changes the alarm.
C14_AlarmClearedOnce ==
    /\ [](ncalls.AlarmsClear <= 1)
    /\ [](pc \notin {"none", "AlarmsClear"} =>
             ncalls.AlarmsClear = 1 /\ alarm = "OK")
    /\ [](ncalls.AlarmsClear = 0 =>
             /\ accessed = {}
             /\ \A r \in TaskWritten : nwrites[r] = 0
             /\ \A r \in TaskRead : ncalls[r] = 0)
    /\ [][(pc \in LoopPcs) =>
             (alarm' = alarm /\ ncalls'.AlarmsClear = ncalls.AlarmsClear)]_vars

\* The alarm was raised before the task started; the task is in a later
\* cycle and has cleared it once.
C14_Witness ==
    /\ InLaterCycle
    /\ ncalls.AlarmsClear = 1
    /\ alarm = "OK"
    /\ ncalls.vTaskDelay >= 2

\* The two states of the task.
Seeding == pc \in {"AlarmsClear", "HomeLocationGet", "HomeLocationSet",
                   "GetTickCount"}
Publishing == pc \in LoopPcs

\* C15: an existing task is Seeding or Publishing; Seeding is entered only
\* when the task is created, Publishing is entered from Seeding after the
\* HomeLocation write and never left; no state of the task is terminated
\* (the task can always take a step or is waiting for its delay to end); and
\* under fair scheduling Seeding leads to Publishing and every cycle is
\* followed by another one.
C15_SeedingThenPublishingForever ==
    /\ [](pc = "none" \/ Seeding \/ Publishing)
    /\ [][Seeding' => (Seeding \/ (pc = "none" /\ pc' = "AlarmsClear"))]_vars
    /\ [][Publishing => Publishing']_vars
    /\ [][(~Publishing /\ Publishing') =>
              (pc = "GetTickCount" /\ nwrites.HomeLocation = 1)]_vars
    /\ [](pc # "none" => ENABLED (SensorsTaskRun \/ DelayReturn))
    /\ Seeding ~> Publishing
    /\ (pc = "AccelsSet") ~> (pc = "Blocked")
    /\ (pc = "Blocked") ~> (pc = "AccelsSet")

\* The task begins its third cycle.
C15_Witness ==
    /\ pc = "AccelsSet"
    /\ ncalls.vTaskDelay = 2
    /\ nwrites.HomeLocation = 1
    /\ ncalls.AlarmsClear = 1

\* Positions of the loop after GyrosSet of the running cycle.
AfterGyrosSet == LoopPcs \ {"AccelsSet", "GyrosBiasGet", "GyrosSet"}

\* Number of the running cycle, the delay that ends it included.
CycleIndex ==
    IF pc = "Blocked" THEN ncalls.vTaskDelay - 1 ELSE ncalls.vTaskDelay

\* Another task has set GyrosBias to b during cycle k (or during the startup
\* when k = 0) and the task has not read GyrosBias since.
BiasUpdated(b, k) ==
    /\ pc # "none"
    /\ unseen.GyrosBias = {b}
    /\ obj.GyrosBias = b
    /\ CycleIndex = k

\* The task has read b after that update and published the Gyros value made
\* from it, in cycle k or in cycle k + 1.
BiasPublished(b, k) ==
    /\ pc \in AfterGyrosSet
    /\ unseen.GyrosBias = {}
    /\ local.GyrosBias = b
    /\ written.Gyros = Vec(2 + b.x, 0 + b.y, 1 + b.z)
    /\ obj.Gyros = written.Gyros
    /\ CycleIndex <= k + 1

\* C16: every GyrosSet follows a GyrosBiasGet of its own cycle, so that once
\* Gyros is published in a cycle and GyrosBias was not written since the read,
\* the published value is (2 + b.x, 0 + b.y, 1 + b.z) for the bias b in the
\* store; and an update of GyrosBias to b that stays is followed by a
\* publication of that value in the running cycle or in the next one.
C16_FreshBiasPublished ==
    /\ []((pc \in AfterGyrosSet /\ unseen.GyrosBias = {}) =>
             written.Gyros = Vec(2 + obj.GyrosBias.x, 0 + obj.GyrosBias.y,
                                 1 + obj.GyrosBias.z))
    /\ [](ncalls.GyrosBias =
             Min(nwrites.Gyros + (IF pc = "GyrosSet" THEN 1 ELSE 0), MaxLog))
    /\ \A b \in BiasVals : \A k \in 0..MaxLog :
           BiasUpdated(b, k) ~> (BiasPublished(b, k) \/ obj.GyrosBias # b)

\* In a later cycle the task has published the Gyros value for a bias that
\* another task wrote after the task's first cycles.
C16_Witness ==
    /\ BiasPublished(Vec(1, -2, 3), 3)
    /\ CycleIndex = 3
    /\ obj.GyrosBias = Vec(1, -2, 3)

\* C17: no step of SensorsInitialize, SensorsStart or SensorsTask changes the
\* stored GyrosBias; a step that changes it leaves the host and the task
\* where they are.
C17_GyrosBiasOnlyRead ==
    /\ [][(SensorsInitialize \/ SensorsStart \/ SensorsTaskRun \/ DelayReturn)
              => obj'.GyrosBias = obj.GyrosBias]_vars
    /\ [][(obj'.GyrosBias # obj.GyrosBias) =>
              UNCHANGED <<hostVars, taskVars, written, nwrites, ncalls>>]_vars

\* The task has read a non-zero GyrosBias in three cycles and published Gyros
\* from it, and the stored bias is still the one it read.
C17_Witness ==
    /\ ncalls.GyrosBias = 3
    /\ nwrites.Gyros = 3
    /\ obj.GyrosBias = Vec(1, -2, 3)
    /\ local.GyrosBias = obj.GyrosBias
    /\ written.Gyros = Vec(3, -2, 4)

\* C18: whenever the task has called PIOS_WDG_UpdateFlag, SensorsStart has
\* already called PIOS_WDG_RegisterFlag.
C18_RegisteredBeforeRefresh ==
    ncalls.WDGUpdateFlag >= 1 => wdgRegistered

====
